---- MODULE Spec2Model ----
(***************************************************************************)
(* A model of sfind's identifier-resolution cascade (finder::run with      *)
(* from_id and from_extra), of Entity::from_id and of the error texts      *)
(* the cascade produces.  The client is any implementation of the          *)
(* sf::Client trait: every call may answer Ok, NotFound or a hard error.   *)
(*                                                                         *)
(* A Rust string is a sequence of characters; each character is written    *)
(* as a one-element TLA+ string, except the two-byte character U+00E9.     *)
(* A text (error message) is a sequence of characters and literal pieces.  *)
(* Where only the separator '.' matters (entity fields), a string is a     *)
(* sequence of pieces: the separator ".", or a maximal run of other        *)
(* characters written as one TLA+ string.                                  *)
(***************************************************************************)
EXTENDS Integers, Sequences, FiniteSets, TLC

\* The state of one run of finder::run.
VARIABLES q, conf, pc, entity, i, id, calls, replies, result

\* The state of one parse of an entity field, rendered and parsed again.
VARIABLES input, ppc, parsed, shown, reparsed

\* The state of one call of the production client (impl Client for
\* rustforce::Client): the call, its position, the queries sent and the
\* responses received, the account being filled, the loop index, the result.
VARIABLES op, cpc, requests, responses, account, opp, ret

\* The state of the process (main): its inputs, its position, the result of
\* arg::parse, the steps run, the errors raised by them, the exit status.
VARIABLES args, environ, file, mpc, action, format, steps, raised, exit

finderVars == <<q, conf, pc, entity, i, id, calls, replies, result>>

parseVars == <<input, ppc, parsed, shown, reparsed>>

prodVars == <<op, cpc, requests, responses, account, opp, ret>>

mainVars == <<args, environ, file, mpc, action, format, steps, raised, exit>>

vars == <<finderVars, parseVars, prodVars, mainVars>>

-----------------------------------------------------------------------------
(* Bounds of the model. *)

\* Largest number of filler characters after the 3-character prefix.
MaxTail == 16
\* Largest number of configured search fields.
MaxSearch == 2

-----------------------------------------------------------------------------
(* Rust strings: characters, byte length, slicing. *)

\* A character that UTF-8 encodes in two bytes.
EAcute == "U+00E9"

\* char::len_utf8 for the characters of the model.
Utf8Len(c) == IF c = EAcute THEN 2 ELSE 1

\* str::len: the length of the string in bytes.
RECURSIVE ByteLen(_)
ByteLen(s) == IF s = <<>> THEN 0 ELSE Utf8Len(Head(s)) + ByteLen(Tail(s))

\* The number of leading characters of s that end at or before byte n.
RECURSIVE CharsWithin(_, _)
CharsWithin(s, n) ==
    IF s = <<>> \/ Utf8Len(Head(s)) > n THEN 0
    ELSE 1 + CharsWithin(Tail(s), n - Utf8Len(Head(s)))

\* str::is_char_boundary(n).
IsCharBoundary(s, n) ==
    /\ n <= ByteLen(s)
    /\ ByteLen(SubSeq(s, 1, CharsWithin(s, n))) = n

\* &s[..n], defined only when n is a char boundary of s.
SliceTo(s, n) == SubSeq(s, 1, CharsWithin(s, n))

\* str::contains(c).
Contains(s, c) == \E k \in 1..Len(s) : s[k] = c

-----------------------------------------------------------------------------
(* sf::Entity and sf::EntityField. *)

Entities == {"Account", "Asset", "Contact", "Opportunity", "OpportunityLineItem"}

NoEntity == "-"

\* The lengths in bytes of a Salesforce id.
ShortIdLen == 15
LongIdLen == 18
\* The length in bytes of the prefix that names the entity.
PrefixLen == 3

\* Entity::from_id: Some(entity), None, or a panic of the slice &id[..3].
from_id(s) ==
    IF ByteLen(s) \in {ShortIdLen, LongIdLen}
    THEN IF ~IsCharBoundary(s, PrefixLen)
         THEN [tag |-> "Panic", entity |-> NoEntity]
         ELSE CASE SliceTo(s, PrefixLen) = <<"0", "0", "1">> ->
                       [tag |-> "Some", entity |-> "Account"]
                [] SliceTo(s, PrefixLen) = <<"0", "2", "i">> ->
                       [tag |-> "Some", entity |-> "Asset"]
                [] SliceTo(s, PrefixLen) = <<"0", "0", "3">> ->
                       [tag |-> "Some", entity |-> "Contact"]
                [] SliceTo(s, PrefixLen) = <<"0", "0", "6">> ->
                       [tag |-> "Some", entity |-> "Opportunity"]
                [] OTHER -> [tag |-> "None", entity |-> NoEntity]
    ELSE [tag |-> "None", entity |-> NoEntity]

\* Entity::to_field.
to_field(e, name) == [entity |-> e, field |-> name]

NoField == [entity |-> NoEntity, field |-> "-"]

-----------------------------------------------------------------------------
(* Errors and their texts. *)

\* sf::Error values; NoError stands for the absence of an error.
NotFound == [kind |-> "NotFound", text |-> <<>>]
Message(m) == [kind |-> "Message", text |-> m]
SFError(e) == [kind |-> "SFError", text |-> e]
NoError == [kind |-> "-", text |-> <<>>]

\* impl Display for sf::Error.
ErrorToString(err) ==
    CASE err.kind = "Message" -> err.text
      [] err.kind = "NotFound" -> <<"salesforce entity not found">>
      [] err.kind = "SFError" -> <<"salesforce error: ">> \o err.text

\* impl From<sf::Error> for Error: the message is the Display text.
ErrorFrom(err) == [message |-> ErrorToString(err)]

\* char::escape_debug as used by the Debug rendering of a str.
RECURSIVE EscapeDebug(_)
EscapeDebug(s) ==
    IF s = <<>> THEN <<>>
    ELSE (IF Head(s) \in {"\"", "\\"} THEN <<"\\", Head(s)>> ELSE <<Head(s)>>)
         \o EscapeDebug(Tail(s))

\* format!("{:?}", s) for a str.
DebugStr(s) == <<"\"">> \o EscapeDebug(s) \o <<"\"">>

\* err_not_found of finder::run.
err_not_found(query) ==
    [message |-> <<"nothing found for query ">> \o DebugStr(query)]

-----------------------------------------------------------------------------
(* The inputs of a run: the query and the configuration. *)

RECURSIVE Fill(_)
Fill(n) == IF n = 0 THEN <<>> ELSE <<"x">> \o Fill(n - 1)

\* The first characters of a query: the four known prefixes, an unknown one,
\* two with a two-byte character, and none at all.
Prefixes ==
    { <<>>,
      <<"0", "0", "1">>, <<"0", "2", "i">>, <<"0", "0", "3">>, <<"0", "0", "6">>,
      <<"0", "0", "7">>,
      <<"0", "0", EAcute>>, <<EAcute, "0", "1">> }

\* No filler at all, or enough of it to reach the lengths around 15 and 18.
TailLens == {0} \cup ((MaxTail - 6)..MaxTail)

\* The last character of a query, if it is not a filler.
Endings == { <<>>, <<"@">>, <<"\"">>, <<EAcute>> }

Queries == { p \o Fill(n) \o e : p \in Prefixes, n \in TailLens, e \in Endings }

SearchFieldChoices ==
    { to_field("Account", "SomeField"),
      to_field("Opportunity", "AnotherField"),
      to_field("Contact", "email") }

RECURSIVE SeqsUpTo(_, _)
SeqsUpTo(S, n) ==
    IF n = 0 THEN { <<>> }
    ELSE SeqsUpTo(S, n - 1)
         \cup { Append(s, x) : s \in { t \in SeqsUpTo(S, n - 1) : Len(t) = n - 1 }, x \in S }

\* config::Config values.
Configs ==
    { [search_fields |-> sf, additional_fields |-> af] :
        sf \in SeqsUpTo(SearchFieldChoices, MaxSearch),
        af \in { <<>>, <<to_field("Opportunity", "LeadSource"),
                         to_field("Account", "Extra__c")>> } }

-----------------------------------------------------------------------------
(* The client: any implementation of the sf::Client trait. *)

\* An account id a lookup may resolve to.
ResolvedId == <<"0", "0", "1", "A", "B">>

NoAccount == [id |-> <<>>]
Accounts == { [id |-> <<"id-for-tests">>] }

HardErrors == { Message(<<"bad wolf">>), SFError(<<"timeout">>) }

\* Result<String, sf::Error>: what get_account_id_by_field may return.
LookupReplies(value) ==
    { [tag |-> "Ok", id |-> x, account |-> NoAccount, err |-> NoError] :
        x \in {ResolvedId, value} }
    \cup { [tag |-> "Err", id |-> <<>>, account |-> NoAccount, err |-> e] :
             e \in {NotFound} \cup HardErrors }

\* Result<Account, sf::Error>: what get_account may return.
AccountReplies ==
    { [tag |-> "Ok", id |-> <<>>, account |-> a, err |-> NoError] : a \in Accounts }
    \cup { [tag |-> "Err", id |-> <<>>, account |-> NoAccount, err |-> e] :
             e \in {NotFound} \cup HardErrors }

\* A call of client.get_account_id_by_field(ef, value) made by the given phase.
LookupCall(ef, value, phase) ==
    [op |-> "get_account_id_by_field", ef |-> ef, arg |-> value,
     fields |-> <<>>, phase |-> phase]

\* A call of client.get_account(id, additional_fields).
AccountCall(aid, fields) ==
    [op |-> "get_account", ef |-> NoField, arg |-> aid,
     fields |-> fields, phase |-> "fetch"]

-----------------------------------------------------------------------------
(* finder::run, from_id and from_extra. *)

\* enum IDResult.
IDOk(aid) == [tag |-> "Ok", id |-> aid, err |-> [message |-> <<>>]]
IDErr(e) == [tag |-> "Err", id |-> <<>>, err |-> e]
IDNone == [tag |-> "None", id |-> <<>>, err |-> [message |-> <<>>]]

\* IDResultOf with a successful lookup taken for a miss: the cascade goes on.
IDResultOf_OkIgnored(r) ==
    CASE r.tag = "Err" /\ r.err # NotFound -> IDErr(ErrorFrom(r.err))
      [] OTHER -> IDNone

\* IDResultOf with every error taken for a miss: hard errors are swallowed.
IDResultOf_ErrSwallowed(r) ==
    CASE r.tag = "Ok" -> IDOk(r.id)
      [] OTHER -> IDNone

\* IDResultOf with NotFound returned as an error like any other.
IDResultOf_NotFoundTerminal(r) ==
    CASE r.tag = "Ok" -> IDOk(r.id)
      [] OTHER -> IDErr(ErrorFrom(r.err))

\* The match on the result of a lookup, in from_id and twice in from_extra.
IDResultOf(r) ==
    CASE r.tag = "Ok" -> IDOk(r.id)
      [] r.tag = "Err" /\ r.err = NotFound -> IDNone
      [] OTHER -> IDErr(ErrorFrom(r.err))

\* Result<sf::Account, Error>, the return value of run; Pending before it.
Pending == [tag |-> "Pending", account |-> NoAccount, message |-> <<>>]
RunOk(acc) == [tag |-> "Ok", account |-> acc, message |-> <<>>]
RunErr(e) == [tag |-> "Err", account |-> NoAccount, message |-> e.message]

\* AccountResultOf with NotFound converted like any other backend error.
AccountResultOf_NotFoundVerbatim(r, query) ==
    CASE r.tag = "Ok" -> RunOk(r.account)
      [] OTHER -> RunErr(ErrorFrom(r.err))

\* The match on the result of get_account that ends run.
AccountResultOf(r, query) ==
    CASE r.tag = "Ok" -> RunOk(r.account)
      [] r.tag = "Err" /\ r.err = NotFound -> RunErr(err_not_found(query))
      [] OTHER -> RunErr(ErrorFrom(r.err))

\* LooksLikeEmail without the test for '@'.
LooksLikeEmail_Always(s) == TRUE

\* q.contains('@') in from_extra.
LooksLikeEmail(s) == Contains(s, "@")

Unclassified == [tag |-> "Unset", entity |-> NoEntity]

\* No entity field is being parsed.
NoParse == [tag |-> "None", ef |-> NoField, err |-> NoError]

ParseIdle ==
    /\ input = <<>>
    /\ ppc = "idle"
    /\ parsed = NoParse
    /\ shown = <<>>
    /\ reparsed = NoParse

\* No call of the production client is in progress.
NoOp == [name |-> "none", ef |-> NoField, value |-> <<>>, fields |-> <<>>]
NoRow == [id |-> <<>>, opportunities |-> <<>>]
NoReturn == [tag |-> "Pending", id |-> <<>>, account |-> NoRow, err |-> NoError]

ProdIdle ==
    /\ op = NoOp
    /\ cpc = "idle"
    /\ requests = <<>>
    /\ responses = <<>>
    /\ account = NoRow
    /\ opp = 1
    /\ ret = NoReturn

\* The process is not running.
NoAction == [tag |-> "None", arg |-> "-"]

MainIdle ==
    /\ args = <<>>
    /\ environ = "-"
    /\ file = "-"
    /\ mpc = "idle"
    /\ action = NoAction
    /\ format = "-"
    /\ steps = <<>>
    /\ raised = <<>>
    /\ exit = "none"

Init ==
    /\ q \in Queries
    /\ conf \in Configs
    /\ pc = "from_id"
    /\ entity = Unclassified
    /\ i = 1
    /\ id = <<>>
    /\ calls = <<>>
    /\ replies = <<>>
    /\ result = Pending
    /\ ParseIdle
    /\ ProdIdle
    /\ MainIdle

\* What run and from_extra do with an IDResult; next is where None continues.
Continue(res, next) ==
    CASE res.tag = "Ok" -> /\ id' = res.id
                           /\ pc' = "get_account"
                           /\ result' = result
      [] res.tag = "Err" -> /\ id' = id
                            /\ pc' = "done"
                            /\ result' = RunErr(res.err)
      [] OTHER -> /\ id' = id
                  /\ pc' = next
                  /\ result' = result

\* from_id: the id names an entity, so its Id field is looked up.
FromIdLookup ==
    /\ pc = "from_id"
    /\ from_id(q).tag = "Some"
    /\ entity' = from_id(q)
    /\ calls' = Append(calls, LookupCall(to_field(from_id(q).entity, "Id"), q, "id"))
    /\ pc' = "from_id_await"
    /\ UNCHANGED <<q, conf, i, id, replies, result>>
    /\ UNCHANGED <<parseVars, prodVars, mainVars>>

\* from_id: the id names no entity, and from_extra is next.
FromIdNone ==
    /\ pc = "from_id"
    /\ from_id(q).tag = "None"
    /\ entity' = from_id(q)
    /\ pc' = "from_extra"
    /\ UNCHANGED <<q, conf, i, id, calls, replies, result>>
    /\ UNCHANGED <<parseVars, prodVars, mainVars>>

\* from_id: slicing the id panics, which ends the run without a result.
FromIdPanic ==
    /\ pc = "from_id"
    /\ from_id(q).tag = "Panic"
    /\ entity' = from_id(q)
    /\ pc' = "panic"
    /\ UNCHANGED <<q, conf, i, id, calls, replies, result>>
    /\ UNCHANGED <<parseVars, prodVars, mainVars>>

\* from_id: the lookup returns.
FromIdReply ==
    /\ pc = "from_id_await"
    /\ \E r \in LookupReplies(q) :
         /\ replies' = Append(replies, r)
         /\ Continue(IDResultOf(r), "from_extra")
    /\ UNCHANGED <<q, conf, entity, i, calls>>
    /\ UNCHANGED <<parseVars, prodVars, mainVars>>

\* from_extra: the contact email is looked up if the query looks like one.
EmailLookup ==
    /\ pc = "from_extra"
    /\ LooksLikeEmail(q)
    /\ calls' = Append(calls, LookupCall(to_field("Contact", "email"), q, "email"))
    /\ pc' = "email_await"
    /\ UNCHANGED <<q, conf, entity, i, id, replies, result>>
    /\ UNCHANGED <<parseVars, prodVars, mainVars>>

\* from_extra: the query does not look like an email.
EmailSkip ==
    /\ pc = "from_extra"
    /\ ~LooksLikeEmail(q)
    /\ pc' = "search"
    /\ UNCHANGED <<q, conf, entity, i, id, calls, replies, result>>
    /\ UNCHANGED <<parseVars, prodVars, mainVars>>

\* from_extra: the email lookup returns.
EmailReply ==
    /\ pc = "email_await"
    /\ \E r \in LookupReplies(q) :
         /\ replies' = Append(replies, r)
         /\ Continue(IDResultOf(r), "search")
    /\ UNCHANGED <<q, conf, entity, i, calls>>
    /\ UNCHANGED <<parseVars, prodVars, mainVars>>

\* SearchLookup walking the search fields from the last to the first.
SearchLookup_Reversed ==
    /\ pc = "search"
    /\ i <= Len(conf.search_fields)
    /\ calls' = Append(calls,
                  LookupCall(conf.search_fields[Len(conf.search_fields) + 1 - i],
                             q, "search"))
    /\ pc' = "search_await"
    /\ UNCHANGED <<q, conf, entity, i, id, replies, result>>
    /\ UNCHANGED <<parseVars, prodVars, mainVars>>

\* from_extra: the next configured search field is looked up.
SearchLookup ==
    /\ pc = "search"
    /\ i <= Len(conf.search_fields)
    /\ calls' = Append(calls, LookupCall(conf.search_fields[i], q, "search"))
    /\ pc' = "search_await"
    /\ UNCHANGED <<q, conf, entity, i, id, replies, result>>
    /\ UNCHANGED <<parseVars, prodVars, mainVars>>

\* from_extra: the lookup of a search field returns.
SearchReply ==
    /\ pc = "search_await"
    /\ i' = i + 1
    /\ \E r \in LookupReplies(q) :
         /\ replies' = Append(replies, r)
         /\ Continue(IDResultOf(r), "search")
    /\ UNCHANGED <<q, conf, entity, calls>>
    /\ UNCHANGED <<parseVars, prodVars, mainVars>>

\* from_extra returns None after the last search field: run returns err_not_found.
SearchExhausted ==
    /\ pc = "search"
    /\ i > Len(conf.search_fields)
    /\ result' = RunErr(err_not_found(q))
    /\ pc' = "done"
    /\ UNCHANGED <<q, conf, entity, i, id, calls, replies>>
    /\ UNCHANGED <<parseVars, prodVars, mainVars>>

\* GetAccountCall handing the search fields over with the additional fields.
GetAccountCall_WithSearchFields ==
    /\ pc = "get_account"
    /\ calls' = Append(calls, AccountCall(id, conf.search_fields \o conf.additional_fields))
    /\ pc' = "get_account_await"
    /\ UNCHANGED <<q, conf, entity, i, id, replies, result>>
    /\ UNCHANGED <<parseVars, prodVars, mainVars>>

\* GetAccountCall fetching the account with the raw query.
GetAccountCall_RawQuery ==
    /\ pc = "get_account"
    /\ calls' = Append(calls, AccountCall(q, conf.additional_fields))
    /\ pc' = "get_account_await"
    /\ UNCHANGED <<q, conf, entity, i, id, replies, result>>
    /\ UNCHANGED <<parseVars, prodVars, mainVars>>

\* run: the account of the resolved id is fetched.
GetAccountCall ==
    /\ pc = "get_account"
    /\ calls' = Append(calls, AccountCall(id, conf.additional_fields))
    /\ pc' = "get_account_await"
    /\ UNCHANGED <<q, conf, entity, i, id, replies, result>>
    /\ UNCHANGED <<parseVars, prodVars, mainVars>>

\* run: get_account returns, and run returns.
GetAccountReply ==
    /\ pc = "get_account_await"
    /\ \E r \in AccountReplies :
         /\ replies' = Append(replies, r)
         /\ result' = AccountResultOf(r, q)
    /\ pc' = "done"
    /\ UNCHANGED <<q, conf, entity, i, id, calls>>
    /\ UNCHANGED <<parseVars, prodVars, mainVars>>

Next ==
    \/ FromIdLookup
    \/ FromIdNone
    \/ FromIdPanic
    \/ FromIdReply
    \/ EmailLookup
    \/ EmailSkip
    \/ EmailReply
    \/ SearchLookup
    \/ SearchReply
    \/ SearchExhausted
    \/ GetAccountCall
    \/ GetAccountReply

Spec == Init /\ [][Next]_vars

-----------------------------------------------------------------------------
(* Parsing and rendering entities and entity fields (sf.rs). *)

\* Largest number of '.'-separated segments of a parsed string.
MaxSegments == 3

\* No run of finder::run is in progress.
FinderIdle ==
    /\ q = <<>>
    /\ conf = [search_fields |-> <<>>, additional_fields |-> <<>>]
    /\ pc = "idle"
    /\ entity = Unclassified
    /\ i = 1
    /\ id = <<>>
    /\ calls = <<>>
    /\ replies = <<>>
    /\ result = Pending

\* The string holding the characters of one segment ("" holds none).
Text(seg) == IF seg = "" THEN <<>> ELSE <<seg>>

\* s.split('.').collect(): the segments between the separators.
RECURSIVE SplitFrom(_, _)
SplitFrom(s, current) ==
    IF s = <<>> THEN <<current>>
    ELSE IF Head(s) = "." THEN <<current>> \o SplitFrom(Tail(s), "")
    ELSE SplitFrom(Tail(s), Head(s))

Split(s) == SplitFrom(s, "")

\* impl fmt::Display for Entity: the name of the variant.
Entity_to_string(e) == Text(e)

\* impl FromStr for Entity.
Entity_from_str(seg) ==
    IF seg \in {"Account", "Asset", "Contact", "Opportunity", "OpportunityLineItem"}
    THEN [tag |-> "Ok", entity |-> seg, err |-> NoError]
    ELSE [tag |-> "Err", entity |-> NoEntity,
          err |-> Message(<<"invalid entity ">> \o DebugStr(Text(seg)))]

\* EntityField_from_str accepting any string with at least two segments.
EntityField_from_str_AtLeastTwo(s) ==
    IF Len(Split(s)) < 2
    THEN [tag |-> "Err", ef |-> NoField,
          err |-> Message(<<"invalid entity field ">> \o DebugStr(s))]
    ELSE IF Entity_from_str(Split(s)[1]).tag = "Ok"
    THEN [tag |-> "Ok",
          ef |-> [entity |-> Entity_from_str(Split(s)[1]).entity, field |-> Split(s)[2]],
          err |-> NoError]
    ELSE [tag |-> "Err", ef |-> NoField,
          err |-> Message(<<"cannot parse entity field ">> \o DebugStr(s) \o <<": ">>
                          \o ErrorToString(Entity_from_str(Split(s)[1]).err))]

\* impl FromStr for EntityField.
EntityField_from_str(s) ==
    IF Len(Split(s)) # 2
    THEN [tag |-> "Err", ef |-> NoField,
          err |-> Message(<<"invalid entity field ">> \o DebugStr(s))]
    ELSE IF Entity_from_str(Split(s)[1]).tag = "Ok"
    THEN [tag |-> "Ok",
          ef |-> [entity |-> Entity_from_str(Split(s)[1]).entity, field |-> Split(s)[2]],
          err |-> NoError]
    ELSE [tag |-> "Err", ef |-> NoField,
          err |-> Message(<<"cannot parse entity field ">> \o DebugStr(s) \o <<": ">>
                          \o ErrorToString(Entity_from_str(Split(s)[1]).err))]

\* EntityField_to_string writing the entity and the field without the dot.
EntityField_to_string_NoDot(ef) ==
    IF ef.field = "" THEN Entity_to_string(ef.entity)
    ELSE << ef.entity \o ef.field >>

\* impl fmt::Display for EntityField: "{}.{}".
EntityField_to_string(ef) == Entity_to_string(ef.entity) \o <<".">> \o Text(ef.field)

\* The segments strings are made of: the entity names, names that are not
\* entities, field names, and the empty segment.
Segments ==
    { "", "Account", "Asset", "Contact", "Opportunity", "OpportunityLineItem",
      "account", "Badwolf", "Id", "Address__c" }

RECURSIVE Join(_)
Join(segs) ==
    IF Len(segs) = 1 THEN Text(segs[1])
    ELSE Text(Head(segs)) \o <<".">> \o Join(Tail(segs))

\* The strings given to the parser: one to MaxSegments segments joined by '.'.
FieldSpecs == { Join(segs) : segs \in SeqsUpTo(Segments, MaxSegments) \ { <<>> } }

ParseInit ==
    /\ FinderIdle
    /\ ProdIdle
    /\ MainIdle
    /\ input \in FieldSpecs
    /\ ppc = "parse"
    /\ parsed = NoParse
    /\ shown = <<>>
    /\ reparsed = NoParse

\* input.parse::<EntityField>().
ParseField ==
    /\ ppc = "parse"
    /\ parsed' = EntityField_from_str(input)
    /\ ppc' = IF EntityField_from_str(input).tag = "Ok" THEN "show" ELSE "done"
    /\ UNCHANGED <<input, shown, reparsed>>
    /\ UNCHANGED <<finderVars, prodVars, mainVars>>

\* ef.to_string() of the parsed field.
ShowField ==
    /\ ppc = "show"
    /\ shown' = EntityField_to_string(parsed.ef)
    /\ ppc' = "reparse"
    /\ UNCHANGED <<input, parsed, reparsed>>
    /\ UNCHANGED <<finderVars, prodVars, mainVars>>

\* The rendered field is parsed again.
ReparseField ==
    /\ ppc = "reparse"
    /\ reparsed' = EntityField_from_str(shown)
    /\ ppc' = "done"
    /\ UNCHANGED <<input, parsed, shown>>
    /\ UNCHANGED <<finderVars, prodVars, mainVars>>

ParseNext ==
    \/ ParseField
    \/ ShowField
    \/ ReparseField

ParseSpec == ParseInit /\ [][ParseNext]_vars

-----------------------------------------------------------------------------
(* config::FileConf::to_config. *)

\* The first error of a sequence of parse results, NoError if there is none.
RECURSIVE FirstError(_)
FirstError(rs) ==
    IF rs = <<>> THEN NoError
    ELSE IF Head(rs).tag = "Err" THEN Head(rs).err
    ELSE FirstError(Tail(rs))

\* iter().map(|f| f.parse::<EntityField>()).collect(): the fields, or the
\* first error.
ParseAll(strs) ==
    [ tag |-> IF FirstError([j \in 1..Len(strs) |-> EntityField_from_str(strs[j])]) = NoError
              THEN "Ok" ELSE "Err",
      efs |-> [j \in 1..Len(strs) |-> EntityField_from_str(strs[j]).ef],
      err |-> FirstError([j \in 1..Len(strs) |-> EntityField_from_str(strs[j])]) ]

EmptyConfig == [search_fields |-> <<>>, additional_fields |-> <<>>]

\* FileConf::to_config: fields? is tried before search?.
to_config(fc) ==
    IF ParseAll(fc.fields).tag = "Err"
    THEN [tag |-> "Err", conf |-> EmptyConfig, err |-> ParseAll(fc.fields).err]
    ELSE IF ParseAll(fc.search).tag = "Err"
    THEN [tag |-> "Err", conf |-> EmptyConfig, err |-> ParseAll(fc.search).err]
    ELSE [tag |-> "Ok",
          conf |-> [search_fields |-> ParseAll(fc.search).efs,
                    additional_fields |-> ParseAll(fc.fields).efs],
          err |-> NoError]

-----------------------------------------------------------------------------
(* The production client: impl Client for rustforce::Client (sf.rs). *)

\* Largest number of rows in the response to a lookup query.
MaxRows == 2
\* Largest number of opportunities of an account.
MaxOpps == 2
\* Largest number of line items of an opportunity.
MaxItems == 1
\* Largest number of additional fields given to get_account.
MaxAdditional == 2

\* The fixed field lists of get_account.
AccountBaseFields ==
    <<"Id", "Name", "AccountNumber", "BillingAddress", "CreatedDate", "LastModifiedDate">>

AssetBaseFields ==
    <<"Id", "Name", "Product2.ProductCode", "Product2.Name",
      "Product2.LastModifiedDate", "Price", "Quantity", "Status", "ContactId",
      "InstallDate", "PurchaseDate", "UsageEndDate", "CreatedDate", "LastModifiedDate">>

ContactBaseFields ==
    <<"Id", "Email", "FirstName", "LastName", "CreatedDate", "LastModifiedDate">>

OpportunityBaseFields ==
    <<"Id", "Name", "RecordType.Name", "StageName", "Amount", "CurrencyIsoCode",
      "IsWon", "IsClosed", "CloseDate", "LeadSource", "CreatedDate", "LastModifiedDate">>

OpportunityLineItemBaseFields ==
    <<"UnitPrice", "Quantity", "TotalPrice", "CurrencyISOCode", "ServiceDate">>

\* The for loop over additional_fields: the names pushed on the list of e.
RECURSIVE Pushed(_, _)
Pushed(fields, e) ==
    IF fields = <<>> THEN <<>>
    ELSE (IF Head(fields).entity = e THEN <<Head(fields).field>> ELSE <<>>)
         \o Pushed(Tail(fields), e)

\* account_fields with the additional fields put before the base fields.
account_fields_Prepend(fields) == Pushed(fields, "Account") \o AccountBaseFields

account_fields(fields) == AccountBaseFields \o Pushed(fields, "Account")
asset_fields(fields) == AssetBaseFields \o Pushed(fields, "Asset")
contact_fields(fields) == ContactBaseFields \o Pushed(fields, "Contact")
opportunity_fields(fields) == OpportunityBaseFields \o Pushed(fields, "Opportunity")
opportunity_line_item_fields(fields) ==
    OpportunityLineItemBaseFields \o Pushed(fields, "OpportunityLineItem")

\* The composite read of get_account.
CompositeQuery(aid, fields) ==
    [ select |-> account_fields(fields),
      subselects |-> << [select |-> asset_fields(fields), from |-> "assets"],
                        [select |-> contact_fields(fields), from |-> "contacts"],
                        [select |-> opportunity_fields(fields), from |-> "opportunities"] >>,
      from |-> Entity_to_string("Account"),
      where |-> [field |-> "Id", value |-> aid],
      order |-> "" ]

\* The query for the line items of one opportunity.
LineItemQuery(fields, oid) ==
    [ select |-> opportunity_line_item_fields(fields),
      subselects |-> <<>>,
      from |-> <<"OpportunityLineItem">>,
      where |-> [field |-> "OpportunityId", value |-> oid],
      order |-> "" ]

\* The queries of get_account_id_by_field: Id of an account, AccountId of
\* any other entity.
LookupQuery(ef, value) ==
    [ select |-> IF ef.entity = "Account" THEN <<"Id">> ELSE <<"AccountId">>,
      subselects |-> <<>>,
      from |-> Entity_to_string(ef.entity),
      where |-> [field |-> ef.field, value |-> value],
      order |-> "LastModifiedDate DESC" ]

\* IsAccountId refusing every field: the short cut is never taken.
IsAccountId_Never(ef) == FALSE

\* The first arm of get_account_id_by_field: Entity::Account if ef.field == "Id".
IsAccountId(ef) == ef.entity = "Account" /\ ef.field = "Id"

\* get_one taking the last record instead of the first.
get_one_Last(records) ==
    IF records = <<>> THEN [tag |-> "Err", record |-> <<>>, err |-> NotFound]
    ELSE [tag |-> "Ok", record |-> <<records[Len(records)]>>, err |-> NoError]

\* get_one: the first record, or NotFound.
get_one(records) ==
    IF records = <<>> THEN [tag |-> "Err", record |-> <<>>, err |-> NotFound]
    ELSE [tag |-> "Ok", record |-> <<Head(records)>>, err |-> NoError]

\* What a function of the client returns.
ReturnId(x) == [tag |-> "Ok", id |-> x, account |-> NoRow, err |-> NoError]
ReturnAccount(a) == [tag |-> "Ok", id |-> <<>>, account |-> a, err |-> NoError]
ReturnErr(e) == [tag |-> "Err", id |-> <<>>, account |-> NoRow, err |-> e]

\* impl From<rustforce::Error> for Error.
FromRustforce(e) == SFError(e)

\* The responses of the backend to a query: an error of rustforce, or records.
QueryError == [tag |-> "Err", records |-> <<>>, err |-> <<"timeout">>]
QueryOk(records) == [tag |-> "Ok", records |-> records, err |-> <<>>]

OtherId == <<"0", "0", "1", "C", "D">>

LookupResponses ==
    {QueryError} \cup { QueryOk(rows) : rows \in SeqsUpTo({ResolvedId, OtherId}, MaxRows) }

OppId(j) == <<"006opp", ToString(j)>>

\* An account row with n opportunities; line_items is not deserialized.
AccountRow(aid, n) ==
    [ id |-> aid,
      opportunities |-> [j \in 1..n |-> [id |-> OppId(j), line_items |-> <<>>]] ]

CompositeResponses(aid) ==
    {QueryError, QueryOk(<<>>)} \cup { QueryOk(<<AccountRow(aid, n)>>) : n \in 0..MaxOpps }

LineItemResponses ==
    {QueryError} \cup { QueryOk(items) : items \in SeqsUpTo({"item1", "item2"}, MaxItems) }

\* The fields a lookup may be made for: those the configuration accepts as
\* search fields, and those finder builds itself.
AcceptedSearchFields ==
    { to_config([fields |-> <<>>, search |-> <<s>>]).conf.search_fields[1] :
        s \in { x \in FieldSpecs : to_config([fields |-> <<>>, search |-> <<x>>]).tag = "Ok" } }

LookupFields ==
    AcceptedSearchFields
    \cup { to_field(e, "Id") : e \in {"Account", "Asset", "Contact", "Opportunity"} }
    \cup { to_field("Contact", "email") }

AdditionalChoices ==
    { to_field("Account", "Extra__c"), to_field("Asset", "Serial__c"),
      to_field("Contact", "Birthdate"), to_field("Opportunity", "LeadSource"),
      to_field("OpportunityLineItem", "Discount") }

ClientCalls ==
    { [name |-> "get_account_id_by_field", ef |-> ef, value |-> v, fields |-> <<>>] :
        ef \in LookupFields, v \in {ResolvedId, <<"v">>} }
    \cup { [name |-> "get_account", ef |-> NoField, value |-> ResolvedId, fields |-> fs] :
             fs \in SeqsUpTo(AdditionalChoices, MaxAdditional) }

ClientInit ==
    /\ FinderIdle
    /\ ParseIdle
    /\ MainIdle
    /\ op \in ClientCalls
    /\ cpc = "call"
    /\ requests = <<>>
    /\ responses = <<>>
    /\ account = NoRow
    /\ opp = 1
    /\ ret = NoReturn

\* get_account_id_by_field: the value is returned for Account.Id.
LookupAccountId ==
    /\ cpc = "call"
    /\ op.name = "get_account_id_by_field"
    /\ IsAccountId(op.ef)
    /\ ret' = ReturnId(op.value)
    /\ cpc' = "returned"
    /\ UNCHANGED <<op, requests, responses, account, opp>>
    /\ UNCHANGED <<finderVars, parseVars, mainVars>>

\* get_account_id_by_field: the query for any other field is sent.
LookupSend ==
    /\ cpc = "call"
    /\ op.name = "get_account_id_by_field"
    /\ ~IsAccountId(op.ef)
    /\ requests' = Append(requests, LookupQuery(op.ef, op.value))
    /\ cpc' = "lookup_await"
    /\ UNCHANGED <<op, responses, account, opp, ret>>
    /\ UNCHANGED <<finderVars, parseVars, mainVars>>

\* get_account_id_by_field: self.query(&q).await? and get_one(res)?.
LookupReceive ==
    /\ cpc = "lookup_await"
    /\ \E r \in LookupResponses :
         /\ responses' = Append(responses, r)
         /\ ret' = IF r.tag = "Err" THEN ReturnErr(FromRustforce(r.err))
                   ELSE IF get_one(r.records).tag = "Err"
                   THEN ReturnErr(get_one(r.records).err)
                   ELSE ReturnId(get_one(r.records).record[1])
    /\ cpc' = "returned"
    /\ UNCHANGED <<op, requests, account, opp>>
    /\ UNCHANGED <<finderVars, parseVars, mainVars>>

\* get_account: the composite read is sent.
CompositeSend ==
    /\ cpc = "call"
    /\ op.name = "get_account"
    /\ requests' = Append(requests, CompositeQuery(op.value, op.fields))
    /\ cpc' = "composite_await"
    /\ UNCHANGED <<op, responses, account, opp, ret>>
    /\ UNCHANGED <<finderVars, parseVars, mainVars>>

\* get_account: self.query(&q).await? and get_one(res)? of the composite read.
CompositeReceive ==
    /\ cpc = "composite_await"
    /\ \E r \in CompositeResponses(op.value) :
         /\ responses' = Append(responses, r)
         /\ IF r.tag = "Err"
            THEN /\ ret' = ReturnErr(FromRustforce(r.err))
                 /\ cpc' = "returned"
                 /\ UNCHANGED account
            ELSE IF get_one(r.records).tag = "Err"
            THEN /\ ret' = ReturnErr(get_one(r.records).err)
                 /\ cpc' = "returned"
                 /\ UNCHANGED account
            ELSE /\ account' = get_one(r.records).record[1]
                 /\ cpc' = "line_items"
                 /\ UNCHANGED ret
    /\ opp' = 1
    /\ UNCHANGED <<op, requests>>
    /\ UNCHANGED <<finderVars, parseVars, mainVars>>

\* LineItemSend walking the opportunities from the last to the first.
LineItemSend_Reversed ==
    /\ cpc = "line_items"
    /\ opp <= Len(account.opportunities)
    /\ requests' = Append(requests,
         LineItemQuery(op.fields,
                       account.opportunities[Len(account.opportunities) + 1 - opp].id))
    /\ cpc' = "line_items_await"
    /\ UNCHANGED <<op, responses, account, opp, ret>>
    /\ UNCHANGED <<finderVars, parseVars, mainVars>>

\* get_account: the line items of the next opportunity are queried.
LineItemSend ==
    /\ cpc = "line_items"
    /\ opp <= Len(account.opportunities)
    /\ requests' = Append(requests, LineItemQuery(op.fields, account.opportunities[opp].id))
    /\ cpc' = "line_items_await"
    /\ UNCHANGED <<op, responses, account, opp, ret>>
    /\ UNCHANGED <<finderVars, parseVars, mainVars>>

\* LineItemReceive going on with the next opportunity after a failed query.
LineItemReceive_SkipError ==
    /\ cpc = "line_items_await"
    /\ \E r \in LineItemResponses :
         /\ responses' = Append(responses, r)
         /\ account' = [account EXCEPT !.opportunities[opp].line_items = r.records]
    /\ opp' = opp + 1
    /\ cpc' = "line_items"
    /\ UNCHANGED <<op, requests, ret>>
    /\ UNCHANGED <<finderVars, parseVars, mainVars>>

\* get_account: self.query(&q).await? of a line item query; opp.line_items = res.records.
LineItemReceive ==
    /\ cpc = "line_items_await"
    /\ \E r \in LineItemResponses :
         /\ responses' = Append(responses, r)
         /\ IF r.tag = "Err"
            THEN /\ ret' = ReturnErr(FromRustforce(r.err))
                 /\ cpc' = "returned"
                 /\ UNCHANGED <<account, opp>>
            ELSE /\ account' = [account EXCEPT !.opportunities[opp].line_items = r.records]
                 /\ opp' = opp + 1
                 /\ cpc' = "line_items"
                 /\ UNCHANGED ret
    /\ UNCHANGED <<op, requests>>
    /\ UNCHANGED <<finderVars, parseVars, mainVars>>

\* AccountReturn without waiting for the loop over the opportunities to end.
AccountReturn_NoLoop ==
    /\ cpc = "line_items"
    /\ ret' = ReturnAccount(account)
    /\ cpc' = "returned"
    /\ UNCHANGED <<op, requests, responses, account, opp>>
    /\ UNCHANGED <<finderVars, parseVars, mainVars>>

\* get_account: Ok(acc) after the last opportunity.
AccountReturn ==
    /\ cpc = "line_items"
    /\ opp > Len(account.opportunities)
    /\ ret' = ReturnAccount(account)
    /\ cpc' = "returned"
    /\ UNCHANGED <<op, requests, responses, account, opp>>
    /\ UNCHANGED <<finderVars, parseVars, mainVars>>

ClientNext ==
    \/ LookupAccountId
    \/ LookupSend
    \/ LookupReceive
    \/ CompositeSend
    \/ CompositeReceive
    \/ LineItemSend
    \/ LineItemReceive
    \/ AccountReturn

ClientSpec == ClientInit /\ [][ClientNext]_vars

-----------------------------------------------------------------------------
(* The process: main, arg::parse, environ::Env::new, config::Config. *)

\* Process exit statuses; a Rust panic ends the process with status 101.
ExitSuccess == "0"
ExitFailure == "1"
ExitPanic == "101"

\* The literal arguments arg::parse knows, and the usage error.
ArgConfig == <<"config">>
ArgHelp == <<"help">>
ArgJson == <<"--json">>

UsageError == <<"usage: sfind <arg>: see sfind help">>

ActionFind(a) == [tag |-> "Find", arg |-> a]
ActionConfig == [tag |-> "Config", arg |-> <<>>]
ActionHelp == [tag |-> "Help", arg |-> <<>>]
ActionErr(m) == [tag |-> "Err", arg |-> m]

\* args.into_iter().skip(1).
Skip1(a) == IF a = <<>> THEN <<>> ELSE Tail(a)

\* arg::parse: the first argument is the action, the second the format;
\* nothing after the second argument is looked at.
arg_parse(a) ==
    IF Skip1(a) = <<>>
    THEN [action |-> ActionErr(UsageError), format |-> "Tabular"]
    ELSE IF Len(Skip1(a)) >= 2 /\ Skip1(a)[2] # ArgJson
    THEN [action |-> ActionErr(UsageError), format |-> "Tabular"]
    ELSE [ action |-> CASE Skip1(a)[1] = ArgConfig -> ActionConfig
                        [] Skip1(a)[1] = ArgHelp -> ActionHelp
                        [] OTHER -> ActionFind(Skip1(a)[1]),
           format |-> IF Len(Skip1(a)) >= 2 THEN "JSON" ELSE "Tabular" ]

\* The variables Env::new requires, in the order it reads them.
RequiredVars ==
    <<"SFDC_CLIENT_ID", "SFDC_CLIENT_SECRET", "SFDC_USERNAME", "SFDC_PASSWORD",
      "SFDC_SECRET_TOKEN">>

\* Env::new on the set of variables defined: Ok, or the first missing one.
RECURSIVE FirstMissing(_, _)
FirstMissing(names, defined) ==
    IF names = <<>> THEN ""
    ELSE IF Head(names) \notin defined THEN Head(names)
    ELSE FirstMissing(Tail(names), defined)

Env_new(defined) ==
    IF FirstMissing(RequiredVars, defined) = ""
    THEN [tag |-> "Ok", message |-> <<>>]
    ELSE [tag |-> "Err",
          message |-> <<"missing environment variable ", FirstMissing(RequiredVars, defined)>>]

\* The configuration file: its path cannot be computed, it does not exist,
\* it is not the TOML of a FileConf, or it holds a FileConf.
NoPath == [state |-> "nopath", fields |-> <<>>, search |-> <<>>]
MissingFile == [state |-> "missing", fields |-> <<>>, search |-> <<>>]
InvalidFile == [state |-> "invalid", fields |-> <<>>, search |-> <<>>]
FileWith(fields, search) == [state |-> "ok", fields |-> fields, search |-> search]

\* FileConf::from_path: the FileConf, or the error of reading or deserializing.
from_path(f) ==
    CASE f.state = "ok" ->
           [tag |-> "Ok", fc |-> [fields |-> f.fields, search |-> f.search], err |-> <<>>]
      [] f.state = "missing" ->
           [tag |-> "Err", fc |-> [fields |-> <<>>, search |-> <<>>],
            err |-> <<"No such file or directory">>]
      [] OTHER ->
           [tag |-> "Err", fc |-> [fields |-> <<>>, search |-> <<>>],
            err |-> <<"invalid TOML">>]

\* The FileConf that Config::parse and Config::edit go on with: an error of
\* from_path is replaced by FileConf::empty().
FileConfOrEmpty(f) ==
    IF from_path(f).tag = "Ok" THEN from_path(f).fc
    ELSE [fields |-> <<>>, search |-> <<>>]

\* to_config turning an unparsable entry into an empty configuration.
Config_parse_Lenient(f) ==
    IF f.state = "nopath"
    THEN [tag |-> "Err", conf |-> EmptyConfig,
          message |-> <<"cannot get config file path: ", "no data root">>]
    ELSE [tag |-> "Ok",
          conf |-> IF to_config(FileConfOrEmpty(f)).tag = "Ok"
                   THEN to_config(FileConfOrEmpty(f)).conf ELSE EmptyConfig,
          message |-> <<>>]

\* Config::parse.
Config_parse(f) ==
    IF f.state = "nopath"
    THEN [tag |-> "Err", conf |-> EmptyConfig,
          message |-> <<"cannot get config file path: ", "no data root">>]
    ELSE IF to_config(FileConfOrEmpty(f)).tag = "Err"
    THEN [tag |-> "Err", conf |-> EmptyConfig,
          message |-> ErrorFrom(to_config(FileConfOrEmpty(f)).err).message]
    ELSE [tag |-> "Ok", conf |-> to_config(FileConfOrEmpty(f)).conf, message |-> <<>>]

\* The errors raised inside Config::parse, whether it returns them or not.
Config_parse_raised(f) ==
    IF f.state = "nopath" THEN << [layer |-> "config_path", text |-> <<"no data root">>] >>
    ELSE (IF from_path(f).tag = "Err"
          THEN << [layer |-> "from_path", text |-> from_path(f).err] >> ELSE <<>>)
         \o (IF to_config(FileConfOrEmpty(f)).tag = "Err"
             THEN << [layer |-> "to_config",
                      text |-> ErrorToString(to_config(FileConfOrEmpty(f)).err)] >>
             ELSE <<>>)

\* What the editor hands back: an error, or the edited contents.
EditorFailed == [tag |-> "Err", contents |-> InvalidFile]
Edited(contents) == [tag |-> "Ok", contents |-> contents]

\* What write_file does: the contents are written, nothing is written
\* (create_dir_all or the opening of the file fails), or fs::write fails
\* after it has truncated the file.
WriteOutcomes == {"written", "failed", "truncated"}

\* Config::edit without the validation of the edited contents.
Config_edit_NoValidation(f, edited, written) ==
    IF f.state = "nopath"
    THEN [tag |-> "Err", file |-> f,
          message |-> <<"cannot get config file path: ", "no data root">>]
    ELSE IF edited.tag = "Err"
    THEN [tag |-> "Err", file |-> f,
          message |-> <<"cannot open default editor: ", "editor failed">>]
    ELSE IF written = "written"
    THEN [tag |-> "Ok", file |-> edited.contents, message |-> <<>>]
    ELSE [tag |-> "Err", file |-> IF written = "truncated" THEN InvalidFile ELSE f,
          message |-> <<"cannot write config: ", "write failed">>]

\* Config::edit: what it returns and the configuration file it leaves.
Config_edit(f, edited, written) ==
    IF f.state = "nopath"
    THEN [tag |-> "Err", file |-> f,
          message |-> <<"cannot get config file path: ", "no data root">>]
    ELSE IF edited.tag = "Err"
    THEN [tag |-> "Err", file |-> f,
          message |-> <<"cannot open default editor: ", "editor failed">>]
    ELSE IF edited.contents.state # "ok"
    THEN [tag |-> "Err", file |-> f,
          message |-> <<"cannot deserialize provided config: ", "invalid TOML">>]
    ELSE IF to_config(from_path(edited.contents).fc).tag = "Err"
    THEN [tag |-> "Err", file |-> f,
          message |-> ErrorFrom(to_config(from_path(edited.contents).fc).err).message]
    ELSE IF written = "written"
    THEN [tag |-> "Ok", file |-> edited.contents, message |-> <<>>]
    ELSE [tag |-> "Err", file |-> IF written = "truncated" THEN InvalidFile ELSE f,
          message |-> <<"cannot write config: ", "write failed">>]

\* A step of main that was run, whether it succeeded, and what it printed
\* on standard error when it did not.
StepOk(name) == [name |-> name, ok |-> TRUE, message |-> <<>>]
StepFailed(name, m) == [name |-> name, ok |-> FALSE, message |-> m]

\* The inputs of the process.
MainQueries ==
    { <<"0", "0", "1">> \o Fill(12),
      <<"0", "2", "i">> \o Fill(15),
      <<"w", "h", "o", "@", "x">>,
      <<"s", "o", "m", "e">>,
      <<"0", "0", EAcute>> \o Fill(11) }

ArgLists ==
    { <<>>, << <<"sfind">> >>,
      << <<"sfind">>, ArgConfig >>, << <<"sfind">>, ArgHelp >>,
      << <<"sfind">>, ArgHelp, <<"bad-wolf">> >> }
    \cup { << <<"sfind">>, x >> : x \in MainQueries }
    \cup { << <<"sfind">>, x, ArgJson >> : x \in MainQueries }
    \cup { << <<"sfind">>, x, <<"bad-wolf">> >> : x \in MainQueries }
    \cup { << <<"sfind">>, x, ArgJson, <<"bad-wolf">> >> : x \in MainQueries }

Environments ==
    { {"SFDC_CLIENT_ID", "SFDC_CLIENT_SECRET", "SFDC_USERNAME", "SFDC_PASSWORD",
       "SFDC_SECRET_TOKEN"},
      {"SFDC_CLIENT_ID", "SFDC_CLIENT_SECRET", "SFDC_USERNAME", "SFDC_PASSWORD"} }

ConfigFiles ==
    { NoPath, MissingFile, InvalidFile,
      FileWith(<<>>, <<>>),
      FileWith(<< <<"Account", ".", "Extra__c">> >>,
               << <<"Account", ".", "SomeField">>, <<"Contact", ".", "email">> >>),
      FileWith(<< <<"Badwolf", ".", "Id">> >>, << <<"Account", ".", "SomeField">> >>),
      FileWith(<<>>, << <<"Account", ".", "SomeField">>, <<"BadWolf">> >>) }

MainInit ==
    /\ FinderIdle
    /\ ParseIdle
    /\ ProdIdle
    /\ args \in ArgLists
    /\ environ \in Environments
    /\ file \in ConfigFiles
    /\ mpc = "args"
    /\ action = NoAction
    /\ format = "-"
    /\ steps = <<>>
    /\ raised = <<>>
    /\ exit = "running"

\* main: arg::parse and the match on the action.
ParseArgs ==
    /\ mpc = "args"
    /\ action' = arg_parse(args).action
    /\ format' = arg_parse(args).format
    /\ CASE arg_parse(args).action.tag = "Find" ->
              /\ q' = arg_parse(args).action.arg
              /\ steps' = Append(steps, StepOk("args"))
              /\ mpc' = "env"
              /\ UNCHANGED <<exit, raised>>
         [] arg_parse(args).action.tag = "Config" ->
              /\ steps' = Append(steps, StepOk("args"))
              /\ mpc' = "edit"
              /\ UNCHANGED <<q, exit, raised>>
         [] arg_parse(args).action.tag = "Help" ->
              /\ steps' = steps \o <<StepOk("args"), StepOk("usage")>>
              /\ mpc' = "exited"
              /\ exit' = ExitFailure
              /\ UNCHANGED <<q, raised>>
         [] OTHER ->
              /\ steps' = Append(steps,
                   StepFailed("args", <<"cannot parse args: ">> \o arg_parse(args).action.arg))
              /\ raised' = Append(raised,
                   [layer |-> "arg::parse", text |-> arg_parse(args).action.arg])
              /\ mpc' = "exited"
              /\ exit' = ExitFailure
              /\ UNCHANGED q
    /\ UNCHANGED <<args, environ, file>>
    /\ UNCHANGED <<conf, pc, entity, i, id, calls, replies, result>>
    /\ UNCHANGED <<parseVars, prodVars>>

\* main: Config::edit for the config action.
EditConfig ==
    /\ mpc = "edit"
    /\ \E edited \in {EditorFailed} \cup { Edited(c) : c \in ConfigFiles \ {NoPath, MissingFile} },
          written \in WriteOutcomes :
         /\ file' = Config_edit(file, edited, written).file
         /\ IF Config_edit(file, edited, written).tag = "Ok"
            THEN /\ steps' = Append(steps, StepOk("edit"))
                 /\ exit' = ExitSuccess
                 /\ UNCHANGED raised
            ELSE /\ steps' = Append(steps,
                      StepFailed("edit", <<"cannot edit config: ">>
                                         \o Config_edit(file, edited, written).message))
                 /\ raised' = Append(raised,
                      [layer |-> "Config::edit",
                       text |-> Config_edit(file, edited, written).message])
                 /\ exit' = ExitFailure
    /\ mpc' = "exited"
    /\ UNCHANGED <<args, environ, action, format>>
    /\ UNCHANGED <<finderVars, parseVars, prodVars>>

\* main: environ::Env::new.
CollectEnv ==
    /\ mpc = "env"
    /\ IF Env_new(environ).tag = "Ok"
       THEN /\ steps' = Append(steps, StepOk("env"))
            /\ mpc' = "config"
            /\ UNCHANGED <<exit, raised>>
       ELSE /\ steps' = Append(steps,
                 StepFailed("env", <<"cannot retrieve environment info: ">>
                                   \o Env_new(environ).message))
            /\ raised' = Append(raised,
                 [layer |-> "Env::new", text |-> Env_new(environ).message])
            /\ mpc' = "exited"
            /\ exit' = ExitFailure
    /\ UNCHANGED <<args, environ, file, action, format>>
    /\ UNCHANGED <<finderVars, parseVars, prodVars>>

\* main: Config::parse.
ParseConfig ==
    /\ mpc = "config"
    /\ raised' = raised \o Config_parse_raised(file)
    /\ IF Config_parse(file).tag = "Ok"
       THEN /\ conf' = Config_parse(file).conf
            /\ steps' = Append(steps, StepOk("config"))
            /\ mpc' = "login"
            /\ UNCHANGED exit
       ELSE /\ steps' = Append(steps,
                 StepFailed("config", <<"cannot parse config: ">> \o Config_parse(file).message))
            /\ mpc' = "exited"
            /\ exit' = ExitFailure
            /\ UNCHANGED conf
    /\ UNCHANGED <<args, environ, file, action, format>>
    /\ UNCHANGED <<q, pc, entity, i, id, calls, replies, result>>
    /\ UNCHANGED <<parseVars, prodVars>>

\* Login going on to finder::run after a failed login.
Login_IgnoreFailure ==
    /\ mpc = "login"
    /\ \E ok \in BOOLEAN :
         IF ok
         THEN /\ steps' = Append(steps, StepOk("login"))
              /\ UNCHANGED raised
         ELSE /\ steps' = Append(steps,
                   StepFailed("login", <<"cannot instantiate sf client: ", "salesforce error: ",
                                         "login failed">>))
              /\ raised' = Append(raised, [layer |-> "sf::client", text |-> <<"login failed">>])
    /\ mpc' = "run"
    /\ pc' = "from_id"
    /\ UNCHANGED exit
    /\ UNCHANGED <<args, environ, file, action, format>>
    /\ UNCHANGED <<q, conf, entity, i, id, calls, replies, result>>
    /\ UNCHANGED <<parseVars, prodVars>>

\* main: sf::client logs in; finder::run is entered when it succeeds.
Login ==
    /\ mpc = "login"
    /\ \E ok \in BOOLEAN :
         IF ok
         THEN /\ steps' = Append(steps, StepOk("login"))
              /\ mpc' = "run"
              /\ pc' = "from_id"
              /\ UNCHANGED <<exit, raised>>
         ELSE /\ steps' = Append(steps,
                   StepFailed("login", <<"cannot instantiate sf client: ", "salesforce error: ",
                                         "login failed">>))
              /\ raised' = Append(raised, [layer |-> "sf::client", text |-> <<"login failed">>])
              /\ mpc' = "exited"
              /\ exit' = ExitFailure
              /\ UNCHANGED pc
    /\ UNCHANGED <<args, environ, file, action, format>>
    /\ UNCHANGED <<q, conf, entity, i, id, calls, replies, result>>
    /\ UNCHANGED <<parseVars, prodVars>>

\* main: finder::run returned.
RunReturns ==
    /\ mpc = "run"
    /\ pc = "done"
    /\ IF result.tag = "Ok"
       THEN /\ steps' = Append(steps, StepOk("run"))
            /\ mpc' = "print"
            /\ UNCHANGED exit
       ELSE /\ steps' = Append(steps,
                 StepFailed("run", <<"cannot find sf entities: ">> \o result.message))
            /\ mpc' = "exited"
            /\ exit' = ExitFailure
    /\ UNCHANGED <<args, environ, file, action, format, raised>>
    /\ UNCHANGED <<finderVars, parseVars, prodVars>>

\* main: finder::run panicked, and the process aborts.
RunPanics ==
    /\ mpc = "run"
    /\ pc = "panic"
    /\ steps' = Append(steps, StepFailed("run", <<"thread 'main' panicked">>))
    /\ mpc' = "exited"
    /\ exit' = ExitPanic
    /\ UNCHANGED <<args, environ, file, action, format, raised>>
    /\ UNCHANGED <<finderVars, parseVars, prodVars>>

\* main: output::print, which can fail only for the JSON format; main returns.
PrintAccount ==
    /\ mpc = "print"
    /\ \E ok \in (IF format = "JSON" THEN BOOLEAN ELSE {TRUE}) :
         IF ok
         THEN /\ steps' = Append(steps, StepOk("print"))
              /\ exit' = ExitSuccess
              /\ UNCHANGED raised
         ELSE /\ steps' = Append(steps,
                   StepFailed("print", <<"cannot serialize account: ", "serde error">>))
              /\ raised' = Append(raised, [layer |-> "output::print", text |-> <<"serde error">>])
              /\ exit' = ExitFailure
    /\ mpc' = "exited"
    /\ UNCHANGED <<args, environ, file, action, format>>
    /\ UNCHANGED <<finderVars, parseVars, prodVars>>

MainNext ==
    \/ ParseArgs
    \/ EditConfig
    \/ CollectEnv
    \/ ParseConfig
    \/ Login
    \/ Next
    \/ RunReturns
    \/ RunPanics
    \/ PrintAccount

MainSpec == MainInit /\ [][MainNext]_vars

-----------------------------------------------------------------------------
(* finder::run with the production client. *)

\* Queries of a run with the production client: ids of an account with 15 and
\* 18 characters, 15 characters of which the last has two bytes, the id of an
\* asset, an email, a name, and a query whose third byte is inside a character.
ProdQueries ==
    { <<"0", "0", "1">> \o Fill(ShortIdLen - PrefixLen),
      <<"0", "0", "1">> \o Fill(LongIdLen - PrefixLen),
      <<"0", "0", "1">> \o Fill(ShortIdLen - PrefixLen - 1) \o <<EAcute>>,
      <<"0", "2", "i">> \o Fill(ShortIdLen - PrefixLen),
      <<"w", "@", "x">>,
      <<"n", "a", "m", "e">>,
      <<"0", "0", EAcute>> \o Fill(ShortIdLen - PrefixLen - 1) }

ProdConfigs ==
    { [search_fields |-> sf, additional_fields |-> af] :
        sf \in { <<>>, <<to_field("Account", "SomeField")>>,
                 <<to_field("Account", "SomeField"), to_field("Contact", "email")>> },
        af \in { <<>>, <<to_field("OpportunityLineItem", "Discount")>> } }

ProdRunInit ==
    /\ q \in ProdQueries
    /\ conf \in ProdConfigs
    /\ pc = "from_id"
    /\ entity = Unclassified
    /\ i = 1
    /\ id = <<>>
    /\ calls = <<>>
    /\ replies = <<>>
    /\ result = Pending
    /\ ParseIdle
    /\ ProdIdle
    /\ MainIdle

Awaiting == pc \in {"from_id_await", "email_await", "search_await", "get_account_await"}

\* The client has returned from the call the run is waiting for.
Returned == cpc = "returned" /\ op.serves = Len(calls)

\* The call the run is waiting for enters the client.
ClientEnter ==
    /\ Awaiting
    /\ \/ cpc = "idle"
       \/ cpc = "returned" /\ op.serves < Len(calls)
    /\ op' = [ name |-> calls[Len(calls)].op,
               ef |-> calls[Len(calls)].ef,
               value |-> calls[Len(calls)].arg,
               fields |-> calls[Len(calls)].fields,
               serves |-> Len(calls) ]
    /\ cpc' = "call"
    /\ requests' = <<>>
    /\ responses' = <<>>
    /\ account' = NoRow
    /\ opp' = 1
    /\ ret' = NoReturn
    /\ UNCHANGED <<finderVars, parseVars, mainVars>>

\* from_id: the lookup returns what the client returned.
ProdFromIdReply ==
    /\ pc = "from_id_await"
    /\ Returned
    /\ replies' = Append(replies, ret)
    /\ Continue(IDResultOf(ret), "from_extra")
    /\ UNCHANGED <<q, conf, entity, i, calls>>
    /\ UNCHANGED <<parseVars, prodVars, mainVars>>

\* from_extra: the email lookup returns what the client returned.
ProdEmailReply ==
    /\ pc = "email_await"
    /\ Returned
    /\ replies' = Append(replies, ret)
    /\ Continue(IDResultOf(ret), "search")
    /\ UNCHANGED <<q, conf, entity, i, calls>>
    /\ UNCHANGED <<parseVars, prodVars, mainVars>>

\* from_extra: the lookup of a search field returns what the client returned.
ProdSearchReply ==
    /\ pc = "search_await"
    /\ Returned
    /\ i' = i + 1
    /\ replies' = Append(replies, ret)
    /\ Continue(IDResultOf(ret), "search")
    /\ UNCHANGED <<q, conf, entity, calls>>
    /\ UNCHANGED <<parseVars, prodVars, mainVars>>

\* run: get_account returns what the client returned, and run returns.
ProdAccountReply ==
    /\ pc = "get_account_await"
    /\ Returned
    /\ replies' = Append(replies, ret)
    /\ result' = AccountResultOf(ret, q)
    /\ pc' = "done"
    /\ UNCHANGED <<q, conf, entity, i, id, calls>>
    /\ UNCHANGED <<parseVars, prodVars, mainVars>>

ProdRunNext ==
    \/ FromIdLookup
    \/ FromIdNone
    \/ FromIdPanic
    \/ ProdFromIdReply
    \/ EmailLookup
    \/ EmailSkip
    \/ ProdEmailReply
    \/ SearchLookup
    \/ ProdSearchReply
    \/ SearchExhausted
    \/ GetAccountCall
    \/ ProdAccountReply
    \/ ClientEnter
    \/ ClientNext

ProdRunSpec == ProdRunInit /\ [][ProdRunNext]_vars

-----------------------------------------------------------------------------
(* Vocabulary of the properties. *)

IsLookup(c) == c.op = "get_account_id_by_field"

\* The get_account_id_by_field calls made so far, in order.
Lookups == SelectSeq(calls, IsLookup)

\* The run is over: it returned, or it panicked.
Terminal == pc \in {"done", "panic"}

IsHardError(r) == r.tag = "Err" /\ r.err # NotFound
IsNotFound(r) == r.tag = "Err" /\ r.err = NotFound

\* The lookups of a run that nothing stops early: the Id lookup if the query
\* is classified as an id, the email lookup if it has an '@', then the
\* search fields in configuration order.
ExpectedLookups ==
    (IF from_id(q).tag = "Some"
     THEN << LookupCall([entity |-> from_id(q).entity, field |-> "Id"], q, "id") >>
     ELSE << >>)
    \o (IF Contains(q, "@")
        THEN << LookupCall([entity |-> "Contact", field |-> "email"], q, "email") >>
        ELSE << >>)
    \o [k \in 1..Len(conf.search_fields) |->
          LookupCall(conf.search_fields[k], q, "search")]

\* The id shape of the specification: 15 or 18 characters, known prefix.
KnownPrefixes ==
    { <<"0", "0", "1">>, <<"0", "2", "i">>, <<"0", "0", "3">>, <<"0", "0", "6">> }

IdShaped(s) == Len(s) \in {15, 18} /\ SubSeq(s, 1, 3) \in KnownPrefixes

KindOfPrefix(p) ==
    CASE p = <<"0", "0", "1">> -> "Account"
      [] p = <<"0", "2", "i">> -> "Asset"
      [] p = <<"0", "0", "3">> -> "Contact"
      [] p = <<"0", "0", "6">> -> "Opportunity"

\* The id phase was skipped or its lookup returned NotFound.
IdPhaseFellThrough ==
    \/ entity.tag = "None"
    \/ entity.tag = "Some" /\ Len(replies) >= 1 /\ IsNotFound(replies[1])

EmailPhaseCalls == { k \in 1..Len(calls) : calls[k].phase = "email" }

\* The text `nothing found for query "<q>"` with q in Rust's debug rendering.
NothingFoundText == <<"nothing found for query ", "\"">> \o EscapeDebug(q) \o <<"\"">>

\* The text `nothing found for query "<q>"` with q copied verbatim.
NothingFoundVerbatim == <<"nothing found for query ", "\"">> \o q \o <<"\"">>

-----------------------------------------------------------------------------
(* The properties. *)

C2_FirstSuccessWins ==
    \A k \in 1..Len(replies) :
        (IsLookup(calls[k]) /\ replies[k].tag = "Ok")
            => \A j \in (k + 1)..Len(calls) : ~IsLookup(calls[j])

\* The id lookup succeeded for an email-like query with search fields configured.
C2_Witness ==
    /\ pc = "done"
    /\ Len(Lookups) = 1
    /\ Lookups[1].phase = "id"
    /\ replies[1].tag = "Ok"
    /\ Contains(q, "@")
    /\ Len(conf.search_fields) = 2

\* C3: a client call that failed with an error other than NotFound is the last
\* client call, the run is over, and its error message is the text of that
\* backend error.
C3_HardErrorIsTerminal ==
    \A k \in 1..Len(replies) :
        IsHardError(replies[k]) =>
            /\ k = Len(calls)
            /\ pc = "done"
            /\ result.tag = "Err"
            /\ result.message =
                 (IF replies[k].err.kind = "Message"
                  THEN replies[k].err.text
                  ELSE <<"salesforce error: ">> \o replies[k].err.text)

\* The first search field failed hard while another one was still to be tried.
C3_Witness ==
    /\ pc = "done"
    /\ Len(calls) >= 1
    /\ calls[Len(calls)].phase = "search"
    /\ Len(Lookups) < Len(ExpectedLookups)
    /\ IsHardError(replies[Len(replies)])
    /\ replies[Len(replies)].err.kind = "SFError"

\* C4: a lookup that returned NotFound and is not the last of the fixed
\* sequence is followed by the next lookup of that sequence; until that lookup
\* is made the run is still in the cascade, without a result.
C4_NotFoundFallsThrough ==
    \A k \in 1..Len(replies) :
        (IsLookup(calls[k]) /\ IsNotFound(replies[k]) /\ k < Len(ExpectedLookups))
            => \/ /\ Len(calls) > k
                  /\ calls[k + 1] = ExpectedLookups[k + 1]
               \/ /\ Len(calls) = k
                  /\ pc \in {"from_extra", "search"}
                  /\ result = Pending

\* NotFound in the id phase, the email phase and the first search field.
C4_Witness ==
    /\ Len(Lookups) = 4
    /\ Lookups[1].phase = "id"
    /\ Lookups[2].phase = "email"
    /\ \A k \in 1..3 : IsNotFound(replies[k])

C8_EmailPhaseIffAt ==
    /\ EmailPhaseCalls # {} => (IdPhaseFellThrough /\ Contains(q, "@"))
    /\ Cardinality(EmailPhaseCalls) <= 1
    /\ \A k \in EmailPhaseCalls : calls[k].ef = [entity |-> "Contact", field |-> "email"]
    /\ (Terminal /\ IdPhaseFellThrough /\ Contains(q, "@")) => EmailPhaseCalls # {}
    /\ (pc \notin {"from_id", "from_id_await", "from_extra"}
          /\ IdPhaseFellThrough /\ Contains(q, "@")) => EmailPhaseCalls # {}

\* The id lookup returned NotFound and the email lookup followed.
C8_Witness ==
    /\ pc = "done"
    /\ entity.tag = "Some"
    /\ IsNotFound(replies[1])
    /\ EmailPhaseCalls = {2}

\* C9: get_account is called with exactly the id the preceding, successful
\* lookup returned.
C9_GetAccountUsesResolvedId ==
    \A k \in 1..Len(calls) :
        calls[k].op = "get_account" =>
            /\ k > 1
            /\ IsLookup(calls[k - 1])
            /\ replies[k - 1].tag = "Ok"
            /\ calls[k].arg = replies[k - 1].id

\* The query is the id of an asset and the account is fetched by another id.
C9_Witness ==
    /\ entity = [tag |-> "Some", entity |-> "Asset"]
    /\ Len(calls) = 2
    /\ calls[2].op = "get_account"
    /\ calls[2].arg = ResolvedId
    /\ calls[2].arg # q

\* C5: a run all of whose lookups returned NotFound, or that made no lookup,
\* returns the nothing-found error without calling get_account; with a query
\* that is not classified as an id and has no '@', and no search fields, it
\* makes no client call.
C5_NothingFound ==
    /\ (Terminal /\ \A k \in 1..Len(replies) : IsNotFound(replies[k]))
          => /\ pc = "done"
             /\ result.tag = "Err"
             /\ result.message = NothingFoundText
             /\ \A k \in 1..Len(calls) : IsLookup(calls[k])
    /\ (from_id(q).tag # "Some" /\ ~Contains(q, "@") /\ conf.search_fields = <<>>)
          => calls = <<>>

\* C7: for a query that is not id-shaped the id phase makes no client call
\* and falls through to from_extra without error.
C7_NotIdShapedNoCall ==
    (pc # "from_id" /\ ~IdShaped(q))
        => /\ \A k \in 1..Len(calls) : calls[k].phase # "id"
           /\ entity.tag = "None"
           /\ pc # "panic"

\* C10: Entity::from_id returns the kind of the prefix exactly for the strings
\* of 15 or 18 characters with a known prefix, and None for every other one.
C10_FromIdExact ==
    entity.tag # "Unset" =>
        entity = (IF IdShaped(q)
                  THEN [tag |-> "Some", entity |-> KindOfPrefix(SubSeq(q, 1, 3))]
                  ELSE [tag |-> "None", entity |-> NoEntity])

\* The names of the five entities.
EntityNames == {"Account", "Asset", "Contact", "Opportunity", "OpportunityLineItem"}

\* The string is <entity name> '.' <field>, the field possibly empty.
IsKindDotField(s) ==
    /\ Len(s) \in {2, 3}
    /\ s[1] \in EntityNames
    /\ s[2] = "."
    /\ Len(s) = 3 => s[3] # "."

NumDots(s) == Cardinality({ k \in 1..Len(s) : s[k] = "." })

\* C11: parsing succeeds exactly for <entity name>.<field> with one of the
\* five names, case-sensitively, and keeps the field verbatim; any other
\* number of segments than two fails with `invalid entity field "<s>"`, and
\* an unknown kind fails with a message that names it.
C11_ParseExact ==
    ppc \in {"show", "reparse", "done"} =>
        /\ parsed.tag = "Ok" <=> IsKindDotField(input)
        /\ parsed.tag = "Ok" =>
             /\ parsed.ef.entity = input[1]
             /\ parsed.ef.field = (IF Len(input) = 3 THEN input[3] ELSE "")
        /\ (parsed.tag = "Err" /\ NumDots(input) # 1) =>
             parsed.err = [kind |-> "Message",
                           text |-> <<"invalid entity field ", "\"">>
                                    \o EscapeDebug(input) \o <<"\"">>]
        /\ (parsed.tag = "Err" /\ NumDots(input) = 1) =>
             /\ parsed.err.kind = "Message"
             /\ SubSeq(parsed.err.text, 1, 1) = <<"cannot parse entity field ">>
             /\ \E k \in 1..Len(parsed.err.text) :
                  SubSeq(parsed.err.text, k, Len(parsed.err.text))
                    = <<"invalid entity ", "\"">>
                      \o (IF input[1] = "." THEN <<>> ELSE <<input[1]>>)
                      \o <<"\"">>

\* A field with a custom suffix was parsed, and a lower-case kind was refused.
C11_Witness ==
    \/ /\ ppc = "show"
       /\ parsed.tag = "Ok"
       /\ parsed.ef = [entity |-> "OpportunityLineItem", field |-> "Address__c"]
    \/ /\ ppc = "done"
       /\ input = <<"account", ".", "Id">>
       /\ parsed.tag = "Err"

\* C12: a string that parses, rendered with to_string and parsed again,
\* parses to the same entity and field.
C12_RoundTrip ==
    (ppc = "done" /\ parsed.tag = "Ok") =>
        /\ reparsed.tag = "Ok"
        /\ reparsed.ef = parsed.ef

\* A field was parsed, rendered and parsed again; another one has no name.
C12_Witness ==
    /\ ppc = "done"
    /\ parsed.tag = "Ok"
    /\ parsed.ef.field = "Id"
    /\ shown = <<"Contact", ".", "Id">>
    /\ reparsed.tag = "Ok"

\* The number of opportunities in the account the composite read returned.
OppsReturned ==
    IF Len(responses) >= 1 /\ responses[1].tag = "Ok" /\ responses[1].records # <<>>
    THEN Len(responses[1].records[1].opportunities)
    ELSE 0

\* C13 as amended: a call of get_account that returns an account has issued
\* exactly 1 + N requests, N the number of opportunities of the composite
\* read; a call that fails has issued at most 1 + N, none after the failure.
C13_RequestCount ==
    op.name = "get_account" =>
        /\ Len(requests) <= 1 + OppsReturned
        /\ (cpc = "returned" /\ ret.tag = "Ok") => Len(requests) = 1 + OppsReturned
        /\ (cpc = "returned" /\ ret.tag = "Err") =>
             /\ Len(requests) = Len(responses)
             /\ \/ responses[Len(responses)].tag = "Err"
                \/ Len(responses) = 1 /\ responses[1].records = <<>>

\* An account with two opportunities was returned after three requests.
C13_Witness ==
    /\ op.name = "get_account"
    /\ cpc = "returned"
    /\ ret.tag = "Ok"
    /\ OppsReturned = 2
    /\ Len(requests) = 3

\* C13 as stated: every call of get_account issues exactly 1 + N requests.
C13_Original ==
    (op.name = "get_account" /\ cpc = "returned") => Len(requests) = 1 + OppsReturned

\* The entities a lookup query can return an account id for: the account and
\* the children get_account selects from it.
AccountOrChild == { <<"Account">>, <<"Asset">>, <<"Contact">>, <<"Opportunity">> }

\* C14: a field the configuration accepts as a search field is of the account
\* or of one of its direct children, so no lookup query is built for another
\* kind.
C14_SearchKindsQueryable ==
    (op.name = "get_account_id_by_field" /\ op.ef \in AcceptedSearchFields) =>
        \A j \in 1..Len(requests) : requests[j].from \in AccountOrChild

\* C19: for Account.Id get_account_id_by_field sends no query and returns
\* Ok(value), never an error.
C19_AccountIdShortCut ==
    (op.name = "get_account_id_by_field"
        /\ op.ef = [entity |-> "Account", field |-> "Id"]) =>
        /\ requests = <<>>
        /\ ret.tag # "Err"
        /\ cpc \in {"call", "returned"}
        /\ cpc = "returned" => (ret.tag = "Ok" /\ ret.id = op.value)

\* Account.Id was looked up with a value that is no id.
C19_Witness ==
    /\ op.name = "get_account_id_by_field"
    /\ op.ef = [entity |-> "Account", field |-> "Id"]
    /\ op.value = <<"v">>
    /\ cpc = "returned"

\* C20: for any other field get_account_id_by_field sends exactly one query,
\* selecting Id from an account and AccountId from any other entity; no row
\* gives NotFound, one or more rows give the id of the first row.
C20_OneQueryFirstRow ==
    (op.name = "get_account_id_by_field"
        /\ op.ef # [entity |-> "Account", field |-> "Id"]) =>
        /\ Len(requests) <= 1
        /\ cpc = "returned" =>
             /\ Len(requests) = 1
             /\ Len(responses) = 1
             /\ requests[1].select =
                  (IF op.ef.entity = "Account" THEN <<"Id">> ELSE <<"AccountId">>)
             /\ requests[1].from = <<op.ef.entity>>
             /\ (responses[1].tag = "Ok" /\ responses[1].records = <<>>)
                   => ret = [tag |-> "Err", id |-> <<>>, account |-> NoRow, err |-> NotFound]
             /\ (responses[1].tag = "Ok" /\ responses[1].records # <<>>)
                   => (ret.tag = "Ok" /\ ret.id = responses[1].records[1])

\* Two differing rows came back for a field of a contact.
C20_Witness ==
    /\ op.name = "get_account_id_by_field"
    /\ op.ef.entity = "Contact"
    /\ cpc = "returned"
    /\ Len(responses) = 1
    /\ Len(responses[1].records) = 2
    /\ responses[1].records[1] # responses[1].records[2]
    /\ ret.id = responses[1].records[1]

-----------------------------------------------------------------------------
(* The process: properties of main, arg::parse and Config::parse. *)

Exited == mpc = "exited"
StepNames == [j \in 1..Len(steps) |-> steps[j].name]
Ran(name) == \E j \in 1..Len(steps) : steps[j].name = name
FailedWith(name, m) ==
    \E j \in 1..Len(steps) : steps[j] = StepFailed(name, m)

\* An entry that is not <kind>.<field> with a known kind.
HasUnparsableEntry(f) ==
    /\ f.state = "ok"
    /\ \E j \in 1..Len(f.fields \o f.search) :
         EntityField_from_str((f.fields \o f.search)[j]).tag = "Err"

\* C15: in a find run whose configuration file has an entry that does not
\* parse as an EntityField, the backend is never logged into and no lookup
\* is made, and once the configuration is parsed the process has reported
\* "cannot parse config: ..." and exited with a non-zero status.
C15_BadEntryStopsBeforeLogin ==
    (HasUnparsableEntry(file) /\ action.tag = "Find") =>
        /\ ~Ran("login")
        /\ calls = <<>>
        /\ pc = "idle"
        /\ exit # ExitSuccess
        /\ Ran("config") =>
             /\ Exited
             /\ exit = ExitFailure
             /\ FailedWith("config",
                  <<"cannot parse config: ">>
                  \o ErrorFrom(to_config(FileConfOrEmpty(file)).err).message)

C15_Witness ==
    /\ HasUnparsableEntry(file)
    /\ action.tag = "Find"
    /\ Ran("config")
    /\ Exited
    /\ exit = ExitFailure

\* The text reported at the process boundary contains the text of the error.
EndsWith(s, suffix) ==
    IF Len(suffix) > Len(s) THEN FALSE
    ELSE SubSeq(s, Len(s) - Len(suffix) + 1, Len(s)) = suffix

Reported(text) ==
    \E j \in 1..Len(steps) : ~steps[j].ok /\ EndsWith(steps[j].message, text)

\* C16: every error raised while loading the configuration, logging in,
\* resolving the id or fetching the account, other than a lookup NotFound of
\* the cascade and other than the absence of the configuration file, is
\* reported when the process has exited, and the exit status is non-zero.
C16_NoErrorSwallowed ==
    Exited =>
        /\ \A j \in 1..Len(raised) :
             raised[j].text # from_path(MissingFile).err =>
                 /\ exit # ExitSuccess
                 /\ Reported(raised[j].text)
        /\ \A j \in 1..Len(replies) :
             (IsHardError(replies[j]) \/ (j = Len(replies) /\ pc = "done" /\ result.tag = "Err")) =>
                 exit # ExitSuccess

\* C17: arg::parse returns the usage error for an argument list with nothing
\* after the command name, with more than two arguments after it, or with a
\* second argument other than --json.
C17_UsageErrors ==
    (/\ mpc # "args"
     /\ \/ Len(args) <= 1
        \/ Len(args) > 3
        \/ (Len(args) = 3 /\ args[3] # ArgJson))
    => action = ActionErr(UsageError)

MainOrder == <<"args", "env", "config", "login", "run", "print">>

\* C18: the steps main has run are a prefix of argument parsing, environment
\* collection, configuration parsing, login, finder::run, printing (or
\* argument parsing followed by the config action or by the usage text); a
\* failed step is the last step and the process has then exited with a
\* non-zero status; the exit status is zero only when the last step printed
\* the account or saved the configuration.
C18_OrderedStepsFirstFailureExits ==
    /\ \/ StepNames = SubSeq(MainOrder, 1, Len(steps))
       \/ StepNames \in { <<"args", "edit">>, <<"args", "usage">> }
    /\ \A j \in 1..Len(steps) :
         ~steps[j].ok => /\ j = Len(steps)
                         /\ Exited
                         /\ exit \in {ExitFailure, ExitPanic}
    /\ Exited <=> exit # "running"
    /\ exit = ExitSuccess =>
         /\ steps # <<>>
         /\ steps[Len(steps)] \in {StepOk("print"), StepOk("edit")}
    /\ (mpc = "run" /\ pc # "idle") => steps[Len(steps)] = StepOk("login")

C18_Witness ==
    /\ exit = ExitSuccess
    /\ StepNames = MainOrder
    /\ calls # <<>>

-----------------------------------------------------------------------------
(* The production get_account: field lists, order of requests, hydration. *)

\* The names of the additional fields of kind e, in the order given.
NamesOfKind(fields, e) ==
    LET IsOfKind(ef) == ef.entity = e
        kept == SelectSeq(fields, IsOfKind)
    IN  [j \in 1..Len(kept) |-> kept[j].field]

InGetAccount == op.name = "get_account"
IsLineItemRequest(r) == r.from = <<"OpportunityLineItem">>

\* C21: every list selected by get_account is the base list of its kind
\* followed by the names of the additional fields of that kind, in the order
\* given and with repetitions kept; the four lists of the composite read and
\* the list of a line-item query together have the size of the five base
\* lists plus the number of additional fields.
C21_FieldLists ==
    InGetAccount =>
        \A j \in 1..Len(requests) :
            IF j = 1
            THEN /\ requests[1].select
                      = AccountBaseFields \o NamesOfKind(op.fields, "Account")
                 /\ requests[1].subselects[1].select
                      = AssetBaseFields \o NamesOfKind(op.fields, "Asset")
                 /\ requests[1].subselects[2].select
                      = ContactBaseFields \o NamesOfKind(op.fields, "Contact")
                 /\ requests[1].subselects[3].select
                      = OpportunityBaseFields \o NamesOfKind(op.fields, "Opportunity")
            ELSE /\ requests[j].select
                      = OpportunityLineItemBaseFields
                        \o NamesOfKind(op.fields, "OpportunityLineItem")
                 /\ Len(requests[1].select) + Len(requests[1].subselects[1].select)
                    + Len(requests[1].subselects[2].select)
                    + Len(requests[1].subselects[3].select) + Len(requests[j].select)
                      = Len(AccountBaseFields) + Len(AssetBaseFields)
                        + Len(ContactBaseFields) + Len(OpportunityBaseFields)
                        + Len(OpportunityLineItemBaseFields) + Len(op.fields)

\* A line-item query was sent for a call given a field of the opportunity that
\* is already in the base list and a field of the line item.
C21_Witness ==
    /\ InGetAccount
    /\ op.fields = <<to_field("Opportunity", "LeadSource"),
                     to_field("OpportunityLineItem", "Discount")>>
    /\ Len(requests) = 2
    /\ Len(requests[1].subselects[3].select) = Len(OpportunityBaseFields) + 1

\* C22: the first request of get_account is the composite read for the id
\* given; a request is sent only when every earlier one was answered; the
\* request after the composite read number j is the line-item query filtered
\* by the id of the j-th opportunity returned, and there are never more of
\* them than opportunities; the rows answered to it are the line items of
\* that opportunity and of no other.
C22_CompositeThenLineItemsInOrder ==
    InGetAccount =>
        /\ Len(responses) <= Len(requests)
        /\ Len(requests) <= Len(responses) + 1
        /\ requests # <<>> =>
             /\ ~IsLineItemRequest(requests[1])
             /\ requests[1].where = [field |-> "Id", value |-> op.value]
        /\ Len(requests) > 1 =>
             /\ responses[1].tag = "Ok"
             /\ responses[1].records # <<>>
             /\ Len(requests) - 1 <= Len(responses[1].records[1].opportunities)
        /\ \A j \in 2..Len(requests) :
             /\ IsLineItemRequest(requests[j])
             /\ requests[j].where =
                  [field |-> "OpportunityId",
                   value |-> responses[1].records[1].opportunities[j - 1].id]
        /\ \A j \in 1..Len(account.opportunities) :
             account.opportunities[j].line_items =
                (IF j + 1 <= Len(responses) /\ responses[j + 1].tag = "Ok"
                 THEN responses[j + 1].records ELSE <<>>)
        /\ (cpc = "returned" /\ ret.tag = "Ok") =>
             /\ Len(requests) = 1 + Len(ret.account.opportunities)
             /\ ret.account = account

\* Two opportunities got different line items.
C22_Witness ==
    /\ InGetAccount
    /\ cpc = "returned"
    /\ ret.tag = "Ok"
    /\ Len(ret.account.opportunities) = 2
    /\ ret.account.opportunities[1].line_items # <<>>
    /\ ret.account.opportunities[2].line_items = <<>>
    /\ Len(responses) = 3
    /\ responses[3].records = <<>>

FailedResponse(r) == r.tag = "Err"
EmptyComposite == responses # <<>> /\ responses[1].tag = "Ok" /\ responses[1].records = <<>>

\* C23: once the composite read has failed or returned no row, or a line-item
\* query has failed, get_account has returned an error and no request was
\* sent after the failed one; an Account is returned only when the composite
\* read and the line-item query of every opportunity succeeded, and it holds
\* the rows of each of them.
C23_NoPartialAccount ==
    InGetAccount =>
        /\ \A j \in 1..Len(responses) :
             (FailedResponse(responses[j]) \/ (j = 1 /\ EmptyComposite)) =>
                 /\ j = Len(requests)
                 /\ cpc = "returned"
                 /\ ret.tag = "Err"
                 /\ ret.account = NoRow
                 /\ ret.err = (IF FailedResponse(responses[j])
                               THEN SFError(responses[j].err) ELSE NotFound)
        /\ (cpc = "returned" /\ ret.tag = "Ok") =>
             /\ Len(responses) = 1 + Len(ret.account.opportunities)
             /\ \A j \in 1..Len(responses) : responses[j].tag = "Ok"
             /\ ret.account.id = responses[1].records[1].id
             /\ \A j \in 1..Len(ret.account.opportunities) :
                  /\ ret.account.opportunities[j].id
                       = responses[1].records[1].opportunities[j].id
                  /\ ret.account.opportunities[j].line_items = responses[j + 1].records
        /\ cpc # "returned" => ret = NoReturn

\* The second of two line-item queries failed after the first had brought rows.
C23_Witness ==
    /\ InGetAccount
    /\ cpc = "returned"
    /\ ret.tag = "Err"
    /\ Len(responses) = 3
    /\ responses[2].records # <<>>
    /\ FailedResponse(responses[3])
    /\ Len(requests) = 3

-----------------------------------------------------------------------------
(* Config::edit and the configuration file. *)

\* The file holds a FileConf whose entries all parse.
ValidConfigFile(f) ==
    /\ f.state = "ok"
    /\ to_config([fields |-> f.fields, search |-> f.search]).tag = "Ok"

EditFailedFor(s, reason) ==
    /\ s # <<>>
    /\ s[Len(s)].name = "edit"
    /\ ~s[Len(s)].ok
    /\ Len(s[Len(s)].message) >= 2
    /\ s[Len(s)].message[2] = reason

\* C24: Config::edit changes the configuration file only when the edited
\* contents deserialized and all their entries parsed (it then returned Ok and
\* the file holds a valid configuration, or the write itself failed); when
\* the editor fails, the contents do not deserialize or an entry does not
\* parse, it returns an error and the file is as it was.
C24_EditWritesOnlyValid ==
    [][ mpc = "edit" =>
          /\ steps'[Len(steps')].name = "edit"
          /\ file' # file =>
               \/ steps'[Len(steps')] = StepOk("edit") /\ ValidConfigFile(file')
               \/ EditFailedFor(steps', "cannot write config: ")
          /\ steps'[Len(steps')] = StepOk("edit") => ValidConfigFile(file')
          /\ (\/ EditFailedFor(steps', "cannot open default editor: ")
              \/ EditFailedFor(steps', "cannot deserialize provided config: ")
              \/ EditFailedFor(steps', "invalid entity field ")
              \/ EditFailedFor(steps', "cannot parse entity field ")
              \/ EditFailedFor(steps', "cannot get config file path: "))
             => /\ file' = file
                /\ exit' = ExitFailure ]_vars

\* The edited contents had an entry that does not parse, and the file, which
\* had none, is still there.
C24_Witness ==
    /\ Exited
    /\ EditFailedFor(steps, "cannot parse entity field ")
    /\ ValidConfigFile(file)
    /\ file.search # <<>>

-----------------------------------------------------------------------------
(* finder::run: number of calls, use of the configuration, totality. *)

IsAccountFetch(c) == c.op = "get_account"
OkLookups == { k \in 1..Len(replies) : IsLookup(calls[k]) /\ replies[k].tag = "Ok" }

\* C25: a run makes at most 2 + len(search_fields) lookups and at most one
\* get_account call; get_account is the last call and is made only after
\* exactly one lookup returned Ok; a run that is over has returned an
\* account, the nothing-found error or the error of the backend.
C25_BoundedCallsThreeOutcomes ==
    /\ Len(Lookups) <= 2 + Len(conf.search_fields)
    /\ Cardinality({ k \in 1..Len(calls) : IsAccountFetch(calls[k]) }) <= 1
    /\ \A k \in 1..Len(calls) :
         IsAccountFetch(calls[k]) =>
             /\ k = Len(calls)
             /\ Cardinality(OkLookups) = 1
             /\ OkLookups = {k - 1}
    /\ Len(replies) <= Len(calls)
    /\ Len(calls) <= Len(replies) + 1
    /\ Terminal =>
         /\ pc = "done"
         /\ Len(replies) = Len(calls)
         /\ \/ result.tag = "Ok" /\ replies[Len(replies)].tag = "Ok"
                 /\ result.account = replies[Len(replies)].account
            \/ result.tag = "Err" /\ result.message = NothingFoundText
                 /\ (replies = <<>> \/ IsNotFound(replies[Len(replies)]))
            \/ result.tag = "Err" /\ replies # <<>>
                 /\ IsHardError(replies[Len(replies)])
                 /\ result.message = ErrorToString(replies[Len(replies)].err)

\* The id of the first answer that is Ok.
FirstOkId(answers) ==
    IF \E k \in 1..Len(answers) : answers[k].tag = "Ok"
    THEN answers[CHOOSE k \in 1..Len(answers) :
                    /\ answers[k].tag = "Ok"
                    /\ \A j \in 1..(k - 1) : answers[j].tag # "Ok"].id
    ELSE <<>>

\* C26: no step of a run changes the configuration; the lookups made are
\* those of the fixed sequence given by the query and the search fields, and
\* the id resolved is the id of the first successful lookup, whatever the
\* additional fields are; get_account is given the additional fields as they
\* are configured, and none of the search fields.
C26_ConfigurationHalvesDisjoint ==
    [][ /\ conf' = conf
        /\ q' = q
        /\ Len(Lookups') <= Len(ExpectedLookups)
        /\ Lookups' = SubSeq(ExpectedLookups, 1, Len(Lookups'))
        /\ \A k \in 1..Len(calls') :
             /\ IsLookup(calls'[k]) => calls'[k].fields = <<>>
             /\ IsAccountFetch(calls'[k]) =>
                  /\ calls'[k].fields = conf.additional_fields
                  /\ calls'[k].arg = FirstOkId(replies')
                  /\ id' = FirstOkId(replies') ]_vars

\* get_account got two additional fields in the order configured, after a
\* search field that is not among them had resolved the id.
C26_Witness ==
    /\ pc = "done"
    /\ Len(conf.additional_fields) = 2
    /\ conf.additional_fields[1] # conf.additional_fields[2]
    /\ Len(conf.search_fields) = 2
    /\ Len(calls) = 3
    /\ IsAccountFetch(calls[3])
    /\ calls[3].fields = conf.additional_fields

\* C28: Entity::from_id returns Some(kind) or None for every query, so the
\* id phase never ends a run by a panic.
C28_FromIdTotal ==
    /\ from_id(q).tag \in {"Some", "None"}
    /\ pc # "panic"

-----------------------------------------------------------------------------
(* finder::run with the production client: account ids. *)

\* The shape of an account id: 15 or 18 characters, the first three 001.
AccountIdShaped(s) == Len(s) \in {15, 18} /\ SubSeq(s, 1, 3) = <<"0", "0", "1">>

IsLookupQuery(r) == r.select \in { <<"Id">>, <<"AccountId">> }

\* C27: with the production client a run for a query of the shape of an
\* account id never enters the email phase or the configured-field phase and
\* sends no lookup query; its only lookup is the Account.Id lookup, answered
\* Ok with the query itself, then get_account is called with the query, and
\* the run returns what get_account gives: the account, its error, or the
\* nothing-found error when the account does not exist.
C27_AccountIdDecidedByGetAccount ==
    AccountIdShaped(q) =>
        /\ pc \notin {"from_extra", "email_await", "search", "search_await", "panic"}
        /\ \A k \in 1..Len(calls) : calls[k].phase \in {"id", "fetch"}
        /\ \A j \in 1..Len(requests) : ~IsLookupQuery(requests[j])
        /\ Len(calls) >= 1 => calls[1] = LookupCall(to_field("Account", "Id"), q, "id")
        /\ Len(replies) >= 1 => (replies[1].tag = "Ok" /\ replies[1].id = q)
        /\ Len(calls) >= 2 => calls[2] = AccountCall(q, conf.additional_fields)
        /\ Len(calls) <= 2
        /\ pc = "done" =>
             /\ Len(replies) = 2
             /\ result = AccountResultOf(replies[2], q)
             /\ IsNotFound(replies[2]) =>
                  (result.tag = "Err" /\ result.message = NothingFoundText)

====
